---------------------------- MODULE Spec2Model ----------------------------
(***************************************************************************)
(* State-machine model of src/app.py: one run of the screener script after *)
(* a CSV has been uploaded.  The run is a straight pipeline                *)
(*   load -> column mapping -> filtering -> grouping -> [deep scan loop    *)
(*   -> add data -> slider filters]                                        *)
(* and every numbered block of the script is one action.                   *)
(*                                                                         *)
(* Representation.                                                         *)
(*  - Text (column headers, cell text, keywords) is a string; lower-casing, *)
(*    substring and prefix tests are computed character by character.  The *)
(*    empty string stands for a missing cell (read_csv turns an empty      *)
(*    field into NaN) and for Python's None where a column name is         *)
(*    expected (no column is named by the empty string).                   *)
(*  - A data frame derived from df is the sequence of the index labels     *)
(*    (row numbers of df) it keeps, as pandas keeps them.                  *)
(*  - Floats are fixed point: 'Value (Cr)', P/E, ROE % and Debt/Eq are in  *)
(*    hundredths (Scale), returnOnEquity is a fraction in 1/100000         *)
(*    (RoeScale), debt_limit is in hundredths.                             *)
(***************************************************************************)
EXTENDS Integers, Sequences, FiniteSets, TLC

(***************************************************************************)
(* Text primitives (Python str / pandas .str semantics)                    *)
(***************************************************************************)
UpperCase ==
    <<"A", "B", "C", "D", "E", "F", "G", "H", "I", "J", "K", "L", "M",
      "N", "O", "P", "Q", "R", "S", "T", "U", "V", "W", "X", "Y", "Z">>

LowerCase ==
    <<"a", "b", "c", "d", "e", "f", "g", "h", "i", "j", "k", "l", "m",
      "n", "o", "p", "q", "r", "s", "t", "u", "v", "w", "x", "y", "z">>

Digits ==
    <<"0", "1", "2", "3", "4", "5", "6", "7", "8", "9">>

\* position of an upper-case letter in the alphabet
UpperIndex ==
    [c \in {UpperCase[i] : i \in 1..26} |->
        CHOOSE i \in 1..26 : UpperCase[i] = c]

LowerIndex ==
    [c \in {LowerCase[i] : i \in 1..26} |->
        CHOOSE i \in 1..26 : LowerCase[i] = c]

\* int(c) of a decimal digit
DigitValue ==
    [c \in {Digits[i] : i \in 1..10} |->
        (CHOOSE i \in 1..10 : Digits[i] = c) - 1]

Whitespace ==
    {" ", "\t", "\n", "\r"}

\* the i-th character of s, as a string
CharAt(s, i) ==
    SubSeq(s, i, i)

\* str.lower() on one character
LowerChar(c) ==
    IF c \in DOMAIN UpperIndex THEN LowerCase[UpperIndex[c]] ELSE c

\* str.lower()
RECURSIVE Lower(_)
Lower(s) ==
    IF s = "" THEN "" ELSE LowerChar(CharAt(s, 1)) \o Lower(Tail(s))

\* sub in s
Contains(s, sub) ==
    \E i \in 0..(Len(s) - Len(sub)) : SubSeq(s, i + 1, i + Len(sub)) = sub

\* s.startswith(prefix), case-sensitive as str.startswith is
StartsWith(s, prefix) ==
    /\ Len(s) >= Len(prefix)
    /\ SubSeq(s, 1, Len(prefix)) = prefix

\* str.replace('\n', '', regex=False)
RECURSIVE RemoveNewlines(_)
RemoveNewlines(s) ==
    IF s = "" THEN ""
    ELSE IF CharAt(s, 1) = "\n" THEN RemoveNewlines(Tail(s))
    ELSE CharAt(s, 1) \o RemoveNewlines(Tail(s))

RECURSIVE LStrip(_)
LStrip(s) ==
    IF s # "" /\ CharAt(s, 1) \in Whitespace THEN LStrip(Tail(s)) ELSE s

RECURSIVE RStrip(_)
RStrip(s) ==
    IF s # "" /\ CharAt(s, Len(s)) \in Whitespace
    THEN RStrip(SubSeq(s, 1, Len(s) - 1))
    ELSE s

\* str.strip()
Strip(s) ==
    RStrip(LStrip(s))

\* code-point order of the characters symbols are made of:
\* digits, then upper case, then lower case
Ord(c) ==
    IF c \in DOMAIN DigitValue THEN DigitValue[c]
    ELSE IF c \in DOMAIN UpperIndex THEN 20 + UpperIndex[c]
    ELSE IF c \in DOMAIN LowerIndex THEN 60 + LowerIndex[c]
    ELSE 0

\* a < b on Python strings (lexicographic by code point)
RECURSIVE StrLess(_, _)
StrLess(a, b) ==
    IF b = "" THEN FALSE
    ELSE IF a = "" THEN TRUE
    ELSE IF CharAt(a, 1) # CharAt(b, 1)
    THEN Ord(CharAt(a, 1)) < Ord(CharAt(b, 1))
    ELSE StrLess(Tail(a), Tail(b))

(***************************************************************************)
(* Numbers                                                                 *)
(***************************************************************************)
\* hundredths: the unit of 'Value (Cr)', P/E, 'ROE %' and 'Debt/Eq'
Scale == 100

\* returnOnEquity is a fraction held in 1/100000
RoeScale ==
    1000 * Scale

\* the divisor of line 78, one crore
Crore == 10000000

Min(a, b) ==
    IF a <= b THEN a ELSE b

\* round(n / d) to the nearest integer, ties to even (Python and numpy round)
RoundDiv(n, d) ==
    LET q == n \div d
        r == n % d
    IN  IF 2 * r < d THEN q
        ELSE IF 2 * r > d THEN q + 1
        ELSE IF q % 2 = 0 THEN q ELSE q + 1

None ==
    ""

(***************************************************************************)
(* 2. COLUMN MAPPING                                                       *)
(***************************************************************************)
\* df.columns.str.replace('\n', '', regex=False).str.strip()
NormalizeColumns(columns) ==
    [i \in 1..Len(columns) |-> Strip(RemoveNewlines(columns[i]))]

\* mutant of all_keywords_in: any(...) in place of all(...)
any_keyword_in(col, keywords) ==
    \E k \in 1..Len(keywords) : Contains(Lower(col), Lower(keywords[k]))

\* all(k.lower() in col.lower() for k in keywords)
all_keywords_in(col, keywords) ==
    \A k \in 1..Len(keywords) : Contains(Lower(col), Lower(keywords[k]))

\* for col in df.columns: if all(...): return col;  return None
RECURSIVE get_col_name(_, _)
get_col_name(columns, keywords) ==
    IF columns = <<>> THEN None
    ELSE IF all_keywords_in(Head(columns), keywords) THEN Head(columns)
    ELSE get_col_name(Tail(columns), keywords)

\* type_col with its fallback (lines 58-59)
get_type_col(columns) ==
    LET first == get_col_name(columns, <<"Transaction", "Type">>)
    IN  IF first = None
        THEN get_col_name(columns, <<"Acquis", "Dispos">>)
        ELSE first

\* mutant of columns_missing: not any([...])
columns_all_missing(p, t, v, m) ==
    p = None /\ t = None /\ v = None /\ m = None

\* not all([person_col, type_col, val_col, mode_col])
columns_missing(p, t, v, m) ==
    ~ (p # None /\ t # None /\ v # None /\ m # None)

(***************************************************************************)
(* Data frame access                                                       *)
(***************************************************************************)
HasColumn(columns, name) ==
    \E i \in 1..Len(columns) : columns[i] = name

ColumnIndex(columns, name) ==
    CHOOSE i \in 1..Len(columns) :
        columns[i] = name /\ \A j \in 1..(i - 1) : columns[j] # name

\* the text of a non-empty cell reads as a number (digits only in this model)
IsNumericText(s) ==
    s # "" /\ \A i \in 1..Len(s) : CharAt(s, i) \in DOMAIN DigitValue

\* read_csv gives a column the object dtype when it holds some text that is
\* not a number (or when the table has no rows); a column of numbers and
\* blanks only is int64/float64, on which the .str accessor raises
IsObjectColumn(rows, c) ==
    \/ rows = <<>>
    \/ \E r \in 1..Len(rows) : rows[r][c] # "" /\ ~ IsNumericText(rows[r][c])

(***************************************************************************)
(* 3. FILTERING                                                            *)
(***************************************************************************)
\* Series.str.contains(pat, case=False, na=False) on one cell
str_contains(cell, pat) ==
    cell # "" /\ Contains(Lower(cell), Lower(pat))

\* Series.str.startswith(pat, na=False) on one cell
str_startswith(cell, pat) ==
    cell # "" /\ StartsWith(cell, pat)

\* df[mask] keeps the index labels whose row satisfies the mask
promoter_rows(rows, p) ==
    SelectSeq([i \in 1..Len(rows) |-> i],
              LAMBDA r : str_contains(rows[r][p], "Promoter"))

buy_rows(rows, labels, t) ==
    SelectSeq(labels,
              LAMBDA r : \/ str_contains(rows[r][t], "Buy")
                         \/ str_contains(rows[r][t], "Acqui"))

market_rows(rows, labels, m) ==
    SelectSeq(labels, LAMBDA r : str_startswith(rows[r][m], "Market P"))

(***************************************************************************)
(* 4. GROUPING                                                             *)
(***************************************************************************)
RECURSIVE DecimalValue(_)
DecimalValue(s) ==
    IF s = "" THEN 0
    ELSE 10 * DecimalValue(SubSeq(s, 1, Len(s) - 1))
         + DigitValue[CharAt(s, Len(s))]

\* pd.to_numeric(cell, errors='coerce'): <<n>> for a number, <<>> for NaN
to_numeric(cell) ==
    IF IsNumericText(cell) THEN <<DecimalValue(cell)>> ELSE <<>>

\* the group keys: groupby drops rows whose key is missing
GroupKeys(rows, labels, s) ==
    {rows[labels[i]][s] : i \in 1..Len(labels)} \ {""}

\* groupby(..., sort=True): the keys in ascending order
RECURSIVE SortedKeys(_)
SortedKeys(keys) ==
    IF keys = {} THEN <<>>
    ELSE LET least == CHOOSE k \in keys :
                          \A o \in keys \ {k} : StrLess(k, o)
         IN  <<least>> \o SortedKeys(keys \ {least})

\* mutant of GroupSum: the key is compared ignoring case
RECURSIVE GroupSum_ignore_case(_, _, _, _, _)
GroupSum_ignore_case(rows, labels, s, v, key) ==
    IF labels = <<>> THEN 0
    ELSE LET r   == rows[Head(labels)]
             num == IF IsNumericText(r[v]) THEN DecimalValue(r[v]) ELSE 0
             add == IF Lower(r[s]) = Lower(key) THEN num ELSE 0
         IN  add + GroupSum_ignore_case(rows, Tail(labels), s, v, key)

\* .sum() of one group: NaN is skipped, an all-NaN group sums to 0
RECURSIVE GroupSum(_, _, _, _, _)
GroupSum(rows, labels, s, v, key) ==
    IF labels = <<>> THEN 0
    ELSE LET r   == rows[Head(labels)]
             num == to_numeric(r[v])
             add == IF r[s] = key /\ num # <<>> THEN num[1] ELSE 0
         IN  add + GroupSum(rows, Tail(labels), s, v, key)

\* round(total / 10000000, 2), in hundredths
ValueCr(total) ==
    RoundDiv(total, Crore \div Scale)

\* final_df.groupby('SYMBOL')[val_col].sum().reset_index() with 'Value (Cr)'
\* added; `index` is the label reset_index gives the row
GroupBy(rows, labels, s, v) ==
    LET keys == SortedKeys(GroupKeys(rows, labels, s))
    IN  [i \in 1..Len(keys) |->
            [index   |-> i,
             SYMBOL  |-> keys[i],
             val     |-> GroupSum(rows, labels, s, v, keys[i]),
             ValueCr |-> ValueCr(GroupSum(rows, labels, s, v, keys[i]))]]

Range(f) ==
    {f[i] : i \in DOMAIN f}

\* sort_values(by='Value (Cr)', ascending=False) with the default
\* kind='quicksort', which pandas documents as not stable: every arrangement
\* of the rows that is descending by 'Value (Cr)' is a possible outcome
RECURSIVE DescendingOrders(_)
DescendingOrders(S) ==
    IF S = {} THEN {<<>>}
    ELSE LET top == {m \in S : \A o \in S : m.ValueCr >= o.ValueCr}
         IN  UNION {{<<m>> \o rest : rest \in DescendingOrders(S \ {m})} :
                    m \in top}

\* mutant of sort_values: ascending=False is left out
sort_values_ascending(frame) ==
    {[i \in DOMAIN order |-> order[Len(order) + 1 - i]] :
        order \in DescendingOrders(Range(frame))}

sort_values(frame) ==
    DescendingOrders(Range(frame))

(***************************************************************************)
(* STEP 2: the quote provider and the scanning loop                        *)
(***************************************************************************)
\* Python values of the info dict: a number, None, or the key is absent
Num(n) ==
    [tag |-> "num", v |-> n]

PyNone ==
    [tag |-> "none", v |-> 0]

Absent ==
    [tag |-> "absent", v |-> 0]

\* f"{symbol}.NS"
Ticker(symbol) ==
    symbol \o ".NS"

\* mutant of dict_get: info.get(key), without the default
dict_get_no_default(entry) ==
    IF entry.tag = "absent" THEN PyNone ELSE entry

\* info.get(key, 0)
dict_get(entry) ==
    IF entry.tag = "absent" THEN Num(0) ELSE entry

\* if x is None: x = 0
none_to_zero(value) ==
    IF value.tag = "none" THEN Num(0) ELSE value

\* the body of the try block and its except branch (lines 112-134): what one
\* lookup appends to pe_ratios, roes, debt_ratios and current_prices
FetchFields(outcome) ==
    IF outcome.raises
    THEN [pe |-> Num(0), roe |-> Num(0), debt |-> Num(0), price |-> Num(0)]
    ELSE [pe    |-> none_to_zero(dict_get(outcome.info.trailingPE)),
          roe   |-> none_to_zero(dict_get(outcome.info.returnOnEquity)),
          debt  |-> none_to_zero(dict_get(outcome.info.debtToEquity)),
          price |-> dict_get(outcome.info.currentPrice)]

\* mutant of head: one row too many
head_one_more(frame, n) ==
    SubSeq(frame, 1, Min(n + 1, Len(frame)))

\* grouped_df.head(num_stocks)
head(frame, n) ==
    SubSeq(frame, 1, Min(n, Len(frame)))

\* round(r * 100, 2), in hundredths of a percent
RoePercent(r) ==
    RoundDiv(r * 100 * Scale, RoeScale)

\* lines 141-144: the four lists become columns, row i taking element i
add_data(picks, prices, pes, rs, debts) ==
    [i \in 1..Len(picks) |->
        [index   |-> picks[i].index,
         SYMBOL  |-> picks[i].SYMBOL,
         val     |-> picks[i].val,
         ValueCr |-> picks[i].ValueCr,
         Price   |-> prices[i],
         PE      |-> pes[i].v,
         ROE     |-> RoePercent(rs[i].v),
         DebtEq  |-> debts[i].v]]

(***************************************************************************)
(* APPLY SLIDER FILTERS                                                    *)
(***************************************************************************)
\* mutant of is_gold: the debt ceiling is not multiplied by 100
is_gold_debt_unscaled(row, pe_lim, roe_lim, debt_lim) ==
    /\ row.PE > 0
    /\ row.PE < pe_lim * Scale
    /\ row.ROE > roe_lim * Scale
    /\ row.DebtEq < debt_lim

\* the mask of lines 147-152 on one row; debt_limit is in hundredths, so
\* debt_limit * 100 in hundredths is debt_limit * 100
is_gold(row, pe_lim, roe_lim, debt_lim) ==
    /\ row.PE > 0
    /\ row.PE < pe_lim * Scale
    /\ row.ROE > roe_lim * Scale
    /\ row.DebtEq < debt_lim * 100

gold_of(picks, pe_lim, roe_lim, debt_lim) ==
    SelectSeq(picks, LAMBDA row : is_gold(row, pe_lim, roe_lim, debt_lim))

\* top_picks[~top_picks.index.isin(gold_stocks.index)]
rejected_of(picks, gold) ==
    SelectSeq(picks,
              LAMBDA row : row.index \notin {gold[i].index : i \in DOMAIN gold})

(***************************************************************************)
(* Bounded inputs                                                          *)
(*                                                                         *)
(* A run's inputs are the uploaded CSV, the three sidebar sliders, the     *)
(* scan slider and button, and what the quote provider answers for each    *)
(* ticker.  Init draws them from the union of five families, each of which *)
(* varies one stage's input widely and fixes the rest.                     *)
(***************************************************************************)
MaxCols == 4

MaxClassRows == 2

MaxAggRows == 2

MaxCompanies == 6

MaxNumStocks == 5

\* st.sidebar.slider defaults (lines 31-33; debt_limit 2.0 in hundredths)
PeLimitDefault == 60

RoeLimitDefault == 10

DebtLimitDefault == 200

\* st.slider("How many top stocks to scan?", 5, 50, 10)
NumStocksMin == 5

NumStocksDefault == 10

EmptyInfo ==
    [trailingPE |-> Absent, returnOnEquity |-> Absent,
     debtToEquity |-> Absent, currentPrice |-> Absent]

Raises ==
    [raises |-> TRUE, info |-> EmptyInfo]

Info(pe, roe, debt, price) ==
    [raises |-> FALSE,
     info   |-> [trailingPE |-> pe, returnOnEquity |-> roe,
                 debtToEquity |-> debt, currentPrice |-> price]]

\* P/E 25.00, ROE 0.15, Debt/Eq 80.00, price 100.00
QuoteSolid ==
    Info(Num(2500), Num(15000), Num(8000), Num(10000))

QuotePool ==
    {Raises,
     QuoteSolid,
     Info(Absent, Absent, Absent, Absent),
     Info(Absent, Num(15000), Num(8000), Num(10000)),
     Info(Num(2500), PyNone, Num(8000), Num(10000)),
     Info(Num(2500), Num(15000), PyNone, Num(10000)),
     Info(Num(2500), Num(15000), Num(8000), PyNone),
     Info(Num(7000), Num(12346), Num(25000), Num(43210)),
     Info(Num(-500), Num(-5234), Num(4000), Num(1550))}

AllSymbols ==
    <<"INFY", "TCS", "SBIN", "ITC", "WIPRO", "ABC", "XYZ",
      "abc">>

AllTickers ==
    {Ticker(AllSymbols[i]) : i \in 1..Len(AllSymbols)}

NoQuotes ==
    [t \in AllTickers |-> Raises]

CanonicalColumns ==
    <<"SYMBOL \n", "CATEGORY OF PERSON \n", "ACQUISITION/DISPOSAL TRANSACTION TYPE \n", "VALUE OF SECURITY \n", "MODE OF ACQUISITION \n">>

Row(symbol, person, type, value, mode) ==
    <<symbol, person, type, value, mode>>

File(columns, rows) ==
    [readable |-> columns # <<>>, columns |-> columns, rows |-> rows]

Input(file, pe, roe, debt, n, scan, q) ==
    [file |-> file, pe_limit |-> pe, roe_limit |-> roe, debt_limit |-> debt,
     num_stocks |-> n, run_scan |-> scan, quotes |-> q]

Idle(file) ==
    Input(file, PeLimitDefault, RoeLimitDefault, DebtLimitDefault,
          NumStocksDefault, FALSE, NoQuotes)

RECURSIVE SeqsOfLen(_, _)
SeqsOfLen(S, n) ==
    IF n = 0 THEN {<<>>}
    ELSE {<<x>> \o rest : x \in S, rest \in SeqsOfLen(S, n - 1)}

RECURSIVE InjSeqsOfLen(_, _)
InjSeqsOfLen(S, n) ==
    IF n = 0 THEN {<<>>}
    ELSE UNION {{<<x>> \o rest : rest \in InjSeqsOfLen(S \ {x}, n - 1)} :
                x \in S}

\* Family 1: any arrangement of up to MaxCols distinct headers, one data row
HeaderPool ==
    {"SYMBOL \n", "CATEGORY OF PERSON \n", "Category of Per\nson", "ACQUISITION/DISPOSAL TRANSACTION TYPE \n", " Acquisition/Disposal",
     "VALUE OF SECURITY \n", "MODE OF ACQUISITION \n"}

SampleCell(header) ==
    IF header = "SYMBOL \n" THEN "ABC"
    ELSE IF header \in {"CATEGORY OF PERSON \n", "Category of Per\nson"} THEN "Promoter Group"
    ELSE IF header \in {"ACQUISITION/DISPOSAL TRANSACTION TYPE \n", " Acquisition/Disposal"} THEN "Buy"
    ELSE IF header = "VALUE OF SECURITY \n" THEN "50000000"
    ELSE "Market Purchase"

SchemaInputs ==
    {Idle(File(cols, <<[i \in 1..Len(cols) |-> SampleCell(cols[i])]>>)) :
        cols \in UNION {InjSeqsOfLen(HeaderPool, n) : n \in 0..MaxCols}}

\* Family 2: the canonical header, up to MaxClassRows rows of any texts
ClassRowPool ==
    {Row("ABC", p, t, "10000000", m) :
        p \in {"PROMOTERS", "Director", ""},
        t \in {"Buy", "Sell"},
        m \in {"Market Purchase", "MARKET PURCHASE"}}
    \cup {Row("ABC", "PROMOTERS", "", "10000000", "Market Purchase"),
          Row("ABC", "PROMOTERS", "Buy", "10000000", "")}

ClassifyInputs ==
    {Idle(File(CanonicalColumns, rows)) :
        rows \in UNION {SeqsOfLen(ClassRowPool, n) : n \in 0..MaxClassRows}}

\* Family 3: up to MaxAggRows promoter rows of any symbol and value
AggRowPool ==
    {Row(s, "Promoter Group", "Acquisition", v, "Market Purchase") :
        s \in {"XYZ", "xyz", ""},
        v \in {"10000000", "20000000", "Nil", ""}}

AggInputs ==
    {Idle(File(CanonicalColumns, rows)) :
        rows \in UNION {SeqsOfLen(AggRowPool, n) : n \in 0..MaxAggRows}}

\* Family 4: k companies, a scan of the top n, each lookup failing or not
ScanValues ==
    <<"20000000", "50000000", "12345678", "10000000", "20000000",
      "40000000", "30000000", "15000000">>

CompanyRows(k) ==
    [i \in 1..k |->
        Row(AllSymbols[i], "Promoter Group", "Buy",
            ScanValues[i], "Market Purchase")]

QuoteOf(i) ==
    Info(Num(1000 + 100 * i), Num(10000 + 1000 * i), Num(5000 + 100 * i),
         Num(20000 + i))

ScanQuotes(k) ==
    {[t \in AllTickers |->
        IF \E i \in fails : t = Ticker(AllSymbols[i]) THEN Raises
        ELSE IF \E i \in 1..k : t = Ticker(AllSymbols[i])
        THEN QuoteOf(CHOOSE i \in 1..k : t = Ticker(AllSymbols[i]))
        ELSE Raises] : fails \in SUBSET (1..k)}

ScanInputs ==
    UNION {{Input(File(CanonicalColumns, CompanyRows(k)), PeLimitDefault,
                  RoeLimitDefault, DebtLimitDefault, n, TRUE, q) :
                n \in NumStocksMin..MaxNumStocks, q \in ScanQuotes(k)} :
           k \in 0..Min(MaxCompanies, Len(AllSymbols))}

\* Family 5: two companies, any quotes from the pool, any slider setting
GateRows ==
    <<Row("ABC", "Promoter Group", "Buy", "50000000", "Market Purchase"),
      Row("XYZ", "Promoters", "ACQUISITION", "20000000",
          "Market Purchase"),
      Row("ABC", "Director", "Buy", "10000000", "Market Purchase"),
      Row("XYZ", "Promoter Group", "Buy", "10000000", "Off Market")>>

GateInputs ==
    {Input(File(CanonicalColumns, GateRows), pe, roe, debt, NumStocksMin,
           TRUE,
           [t \in AllTickers |->
               IF t = Ticker("ABC") THEN qa
               ELSE IF t = Ticker("XYZ") THEN qx ELSE Raises]) :
        pe \in {10, 60, 100}, roe \in {0, 10}, debt \in {0, 50, 200},
        qa \in QuotePool, qx \in QuotePool}

Inputs ==
    SchemaInputs \cup ClassifyInputs \cup AggInputs \cup ScanInputs
        \cup GateInputs

(***************************************************************************)
(* State                                                                   *)
(***************************************************************************)
VARIABLES
    uploaded_file,   \* the CSV: readable, columns (raw headers), rows
    pe_limit,        \* sidebar slider, 10..100
    roe_limit,       \* sidebar slider, 0..30
    debt_limit,      \* sidebar slider, 0.0..5.0, in hundredths
    num_stocks,      \* scan slider
    run_scan,        \* the "Run Deep Scan" button
    quotes,          \* what ticker.info answers: ticker -> outcome
    pc,              \* the block of the script the run is at
    error,           \* what ended the run early, "" if nothing did
    df_columns,      \* df.columns after line 50
    person_col, type_col, val_col, mode_col,
    final_df,        \* index labels of the rows FILTERING keeps
    grouped_df,      \* the ranked company list
    top_picks,       \* grouped_df.head(num_stocks), later with the quotes
    lookups,         \* the tickers asked of the provider, in order
    pe_ratios, roes, debt_ratios, current_prices,
    status_text,
    gold_stocks, rejected

inputs == <<uploaded_file, pe_limit, roe_limit, debt_limit, num_stocks,
            run_scan, quotes>>

mapping == <<person_col, type_col, val_col, mode_col>>

lists == <<pe_ratios, roes, debt_ratios, current_prices>>

scan == <<top_picks, lookups, lists, status_text>>

verdict == <<gold_stocks, rejected>>

vars == <<inputs, pc, error, df_columns, mapping, final_df, grouped_df,
          scan, verdict>>

\* the state when the script reaches line 46 with a file uploaded
Init ==
    /\ \E inp \in Inputs :
          /\ uploaded_file = inp.file
          /\ pe_limit = inp.pe_limit
          /\ roe_limit = inp.roe_limit
          /\ debt_limit = inp.debt_limit
          /\ num_stocks = inp.num_stocks
          /\ run_scan = inp.run_scan
          /\ quotes = inp.quotes
    /\ pc = "load"
    /\ error = ""
    /\ df_columns = <<>>
    /\ person_col = None /\ type_col = None
    /\ val_col = None /\ mode_col = None
    /\ final_df = <<>>
    /\ grouped_df = <<>>
    /\ top_picks = <<>>
    /\ lookups = <<>>
    /\ pe_ratios = <<>> /\ roes = <<>>
    /\ debt_ratios = <<>> /\ current_prices = <<>>
    /\ status_text = ""
    /\ gold_stocks = <<>> /\ rejected = <<>>

(***************************************************************************)
(* The blocks of the script                                                *)
(***************************************************************************)
\* 1. LOAD DATA, the try branch
LoadData ==
    /\ pc = "load"
    /\ uploaded_file.readable
    /\ df_columns' = NormalizeColumns(uploaded_file.columns)
    /\ pc' = "map"
    /\ UNCHANGED <<inputs, error, mapping, final_df, grouped_df, scan,
                   verdict>>

\* 1. LOAD DATA, the except branch: st.error and st.stop
LoadError ==
    /\ pc = "load"
    /\ ~ uploaded_file.readable
    /\ error' = "Error loading file"
    /\ pc' = "stopped"
    /\ UNCHANGED <<inputs, df_columns, mapping, final_df, grouped_df, scan,
                   verdict>>

\* 2. COLUMN MAPPING with its check (lines 57-65)
ColumnMapping ==
    /\ pc = "map"
    /\ person_col' = get_col_name(df_columns, <<"Category", "Person">>)
    /\ type_col' = get_type_col(df_columns)
    /\ val_col' = get_col_name(df_columns, <<"Value", "Security">>)
    /\ mode_col' = get_col_name(df_columns, <<"Mode", "Acquis">>)
    /\ IF columns_missing(person_col', type_col', val_col', mode_col')
       THEN error' = "Could not detect required columns" /\ pc' = "stopped"
       ELSE error' = error /\ pc' = "filter"
    /\ UNCHANGED <<inputs, df_columns, final_df, grouped_df, scan, verdict>>

\* 3. FILTERING (lines 68-73); .str on a column that is not text raises
Filtering ==
    /\ pc = "filter"
    /\ LET rows == uploaded_file.rows
           p == ColumnIndex(df_columns, person_col)
           t == ColumnIndex(df_columns, type_col)
           m == ColumnIndex(df_columns, mode_col)
       IN  IF /\ IsObjectColumn(rows, p)
              /\ IsObjectColumn(rows, t)
              /\ IsObjectColumn(rows, m)
           THEN /\ final_df' = market_rows(rows,
                                   buy_rows(rows, promoter_rows(rows, p), t),
                                   m)
                /\ pc' = "group"
                /\ error' = error
           ELSE /\ final_df' = final_df
                /\ pc' = "crashed"
                /\ error' = "AttributeError"
    /\ UNCHANGED <<inputs, df_columns, mapping, grouped_df, scan, verdict>>

\* 4. GROUPING (lines 76-79); groupby('SYMBOL') raises without that column
Grouping ==
    /\ pc = "group"
    /\ IF HasColumn(df_columns, "SYMBOL")
       THEN /\ grouped_df' \in
                  sort_values(GroupBy(uploaded_file.rows, final_df,
                                      ColumnIndex(df_columns, "SYMBOL"),
                                      ColumnIndex(df_columns, val_col)))
            /\ pc' = "button"
            /\ error' = error
       ELSE /\ grouped_df' = grouped_df
            /\ pc' = "crashed"
            /\ error' = "KeyError"
    /\ UNCHANGED <<inputs, df_columns, mapping, final_df, scan, verdict>>

\* the button is not pressed: the script ends after the raw results
NoScan ==
    /\ pc = "button"
    /\ ~ run_scan
    /\ pc' = "done"
    /\ UNCHANGED <<inputs, error, df_columns, mapping, final_df, grouped_df,
                   scan, verdict>>

\* if run_scan: lines 99-107
StartScan ==
    /\ pc = "button"
    /\ run_scan
    /\ top_picks' = head(grouped_df, num_stocks)
    /\ pe_ratios' = <<>> /\ roes' = <<>>
    /\ debt_ratios' = <<>> /\ current_prices' = <<>>
    /\ pc' = "scan"
    /\ UNCHANGED <<inputs, error, df_columns, mapping, final_df, grouped_df,
                   lookups, status_text, verdict>>

\* one turn of the SCANNING LOOP (lines 110-136)
ScanningLoop ==
    /\ pc = "scan"
    /\ Len(pe_ratios) < Len(top_picks)
    /\ LET symbol == top_picks[Len(pe_ratios) + 1].SYMBOL
           got    == FetchFields(quotes[Ticker(symbol)])
       IN  /\ status_text' = "Scanning"
           /\ lookups' = Append(lookups, Ticker(symbol))
           /\ pe_ratios' = Append(pe_ratios, got.pe)
           /\ roes' = Append(roes, got.roe)
           /\ debt_ratios' = Append(debt_ratios, got.debt)
           /\ current_prices' = Append(current_prices, got.price)
    /\ UNCHANGED <<inputs, pc, error, df_columns, mapping, final_df,
                   grouped_df, top_picks, verdict>>

\* the loop is over: "Scan Complete!" and ADD DATA TO DF (lines 138-144)
AddData ==
    /\ pc = "scan"
    /\ Len(pe_ratios) = Len(top_picks)
    /\ status_text' = "Scan Complete!"
    /\ top_picks' = add_data(top_picks, current_prices, pe_ratios, roes,
                             debt_ratios)
    /\ pc' = "gate"
    /\ UNCHANGED <<inputs, error, df_columns, mapping, final_df, grouped_df,
                   lookups, lists, verdict>>

\* mutant of ApplySliderFilters: the filter is applied to top_picks itself
ApplySliderFilters_in_place ==
    /\ pc = "gate"
    /\ gold_stocks' = gold_of(top_picks, pe_limit, roe_limit, debt_limit)
    /\ rejected' = rejected_of(top_picks, gold_stocks')
    /\ top_picks' = gold_stocks'
    /\ pc' = "done"
    /\ UNCHANGED <<inputs, error, df_columns, mapping, final_df, grouped_df,
                   lookups, lists, status_text>>

\* APPLY SLIDER FILTERS, SHOW FINAL LIST, SHOW REJECTS (lines 147-161)
ApplySliderFilters ==
    /\ pc = "gate"
    /\ gold_stocks' = gold_of(top_picks, pe_limit, roe_limit, debt_limit)
    /\ rejected' = rejected_of(top_picks, gold_stocks')
    /\ pc' = "done"
    /\ UNCHANGED <<inputs, error, df_columns, mapping, final_df, grouped_df,
                   scan>>

Next ==
    \/ LoadData
    \/ LoadError
    \/ ColumnMapping
    \/ Filtering
    \/ Grouping
    \/ NoScan
    \/ StartScan
    \/ ScanningLoop
    \/ AddData
    \/ ApplySliderFilters

Spec ==
    Init /\ [][Next]_vars

(***************************************************************************)
(* Properties                                                              *)
(***************************************************************************)
Elems(seq) ==
    {seq[i] : i \in DOMAIN seq}

\* FILTERING ran to its end (the run is at or past GROUPING)
Filtered ==
    \/ pc \in {"group", "button", "scan", "gate", "done"}
    \/ pc = "crashed" /\ error = "KeyError"

\* GROUPING ran to its end
Grouped ==
    pc \in {"button", "scan", "gate", "done"}

\* ADD DATA TO DF ran: top_picks carries the four quote columns
Enriched ==
    pc \in {"gate", "done"}

\* APPLY SLIDER FILTERS ran
Gated ==
    pc = "done" /\ run_scan

\* COLUMN MAPPING ran
Mapped ==
    pc \notin {"load", "map"} /\ error # "Error loading file"

\* COLUMN MAPPING has just run
JustMapped ==
    pc = "filter" \/ (pc = "stopped" /\ Mapped)

AllBound ==
    person_col # None /\ type_col # None /\ val_col # None /\ mode_col # None

-----------------------------------------------------------------------------
\* the acceptance condition as the claim words it, in the model's units
\* (P/E, ROE % and Debt/Eq in hundredths, debt_limit in hundredths)
ClaimAccepts(row) ==
    /\ row.PE > 0
    /\ row.PE < pe_limit * Scale
    /\ row.ROE > roe_limit * Scale
    /\ row.DebtEq * Scale < (debt_limit * 100) * Scale

\* C1: once the gate has run, a candidate is in gold_stocks iff peRatio > 0,
\* peRatio < peCeiling, roePercent > roeFloor and debtToEquity <
\* debtCeiling * 100; every other candidate (any with peRatio = 0 among
\* them) is in rejected; the two are disjoint and together are top_picks.
C1_GatePartition ==
    Gated =>
        /\ \A i \in DOMAIN top_picks :
              /\ top_picks[i] \in Elems(gold_stocks)
                    <=> ClaimAccepts(top_picks[i])
              /\ top_picks[i] \in Elems(rejected)
                    <=> ~ ClaimAccepts(top_picks[i])
              /\ top_picks[i].PE = 0 => top_picks[i] \in Elems(rejected)
        /\ Elems(gold_stocks) \cap Elems(rejected) = {}
        /\ Elems(gold_stocks) \cup Elems(rejected) = Elems(top_picks)
        /\ Len(gold_stocks) + Len(rejected) = Len(top_picks)

\* a scan that accepts one candidate and rejects another whose P/E is 0
C1_Witness ==
    /\ Gated
    /\ gold_stocks # <<>>
    /\ \E i \in DOMAIN rejected : rejected[i].PE = 0

-----------------------------------------------------------------------------
\* what the provider answers for the candidate in row i of top_picks
QuoteFor(i) ==
    quotes[Ticker(top_picks[i].SYMBOL)]

\* the record lacks a field: the key is absent
LacksField(info) ==
    \/ info.trailingPE.tag = "absent"
    \/ info.returnOnEquity.tag = "absent"
    \/ info.debtToEquity.tag = "absent"
    \/ info.currentPrice.tag = "absent"

AllFourZero(row) ==
    row.Price = Num(0) /\ row.PE = 0 /\ row.ROE = 0 /\ row.DebtEq = 0

\* a supplied number, or 0 for an absent key or a null
NumberOrZero(entry) ==
    IF entry.tag = "num" THEN entry.v ELSE 0

\* r * 100 rounded to 2 decimals, in hundredths: within half a hundredth
IsPercentOf(pct, r) ==
    2 * (pct * (RoeScale \div (100 * Scale)) - r)
        \in -(RoeScale \div (100 * Scale))..(RoeScale \div (100 * Scale))

\* C2, as claimed: after enrichment, a candidate whose lookup raised or
\* whose record lacks one of the fields has all four fields zero.
C2_AnyFailureZeroesAllFour ==
    Enriched =>
        \A i \in DOMAIN top_picks :
            (QuoteFor(i).raises \/ LacksField(QuoteFor(i).info))
                => AllFourZero(top_picks[i])

\* C2, amended: after enrichment, a candidate whose lookup raised has all
\* four fields zero; a candidate whose lookup returned a record has each
\* field defaulted on its own: an absent key gives 0, a null P/E, ROE or
\* debt/equity gives 0, a null price stays null, and every number the
\* record supplies is carried as returned (ROE as a percentage rounded to
\* 2 decimals), whatever the lookups of the other candidates did.
C2_PerFieldDefaults ==
    Enriched =>
        \A i \in DOMAIN top_picks :
            LET q == QuoteFor(i) IN
            /\ q.raises => AllFourZero(top_picks[i])
            /\ ~ q.raises =>
                /\ top_picks[i].PE = NumberOrZero(q.info.trailingPE)
                /\ top_picks[i].DebtEq = NumberOrZero(q.info.debtToEquity)
                /\ IsPercentOf(top_picks[i].ROE,
                               NumberOrZero(q.info.returnOnEquity))
                /\ top_picks[i].Price =
                      IF q.info.currentPrice.tag = "absent"
                      THEN Num(0)
                      ELSE q.info.currentPrice

\* a record without a P/E next to a lookup that raised: the first keeps its
\* ROE and debt/equity, the second is all zero
C2_Witness ==
    /\ Enriched
    /\ \E i \in DOMAIN top_picks :
          /\ ~ QuoteFor(i).raises
          /\ QuoteFor(i).info.trailingPE.tag = "absent"
          /\ top_picks[i].PE = 0
          /\ top_picks[i].ROE # 0
    /\ \E i \in DOMAIN top_picks :
          QuoteFor(i).raises /\ AllFourZero(top_picks[i])

-----------------------------------------------------------------------------
\* C3: the scan enriches exactly min(N, len(ranked list)) entries, the
\* first ones of the ranked list in rank order; the i-th fetched fields sit
\* on the i-th symbol; the provider is asked for those symbols only, once
\* each and in rank order, and never for an entry ranked beyond N.
C3_TopNOnly ==
    /\ Len(lookups) <= Min(num_stocks, Len(grouped_df))
    /\ \A i \in DOMAIN lookups : lookups[i] = Ticker(grouped_df[i].SYMBOL)
    /\ pc \in {"scan", "gate", "done"} /\ run_scan =>
          /\ Len(top_picks) = Min(num_stocks, Len(grouped_df))
          /\ \A i \in DOMAIN top_picks :
                /\ top_picks[i].SYMBOL = grouped_df[i].SYMBOL
                /\ top_picks[i].index = grouped_df[i].index
                /\ top_picks[i].ValueCr = grouped_df[i].ValueCr
    /\ Enriched =>
          /\ Len(lookups) = Len(top_picks)
          /\ \A i \in DOMAIN top_picks :
                LET q == quotes[Ticker(grouped_df[i].SYMBOL)] IN
                /\ top_picks[i].PE =
                      IF q.raises THEN 0 ELSE NumberOrZero(q.info.trailingPE)
                /\ top_picks[i].DebtEq =
                      IF q.raises THEN 0
                      ELSE NumberOrZero(q.info.debtToEquity)

\* more companies than the cap: the cap's worth enriched with their own
\* quotes, one of which failed
C3_Witness ==
    /\ Enriched
    /\ Len(grouped_df) > num_stocks
    /\ Len(top_picks) = num_stocks
    /\ \E i \in DOMAIN top_picks : top_picks[i].PE = 0
    /\ \E i \in DOMAIN top_picks : top_picks[i].PE > 0

-----------------------------------------------------------------------------
\* C4: when a role resolves to no column, the run reports the error and
\* halts there: it is stopped with the column error, and nothing of
\* filtering, grouping, the scan or the gate has been produced; no later
\* block is ever at work with a role unbound.
C4_HaltOnUnboundRole ==
    /\ Mapped /\ ~ AllBound =>
          /\ pc = "stopped"
          /\ error = "Could not detect required columns"
          /\ final_df = <<>> /\ grouped_df = <<>> /\ top_picks = <<>>
          /\ lookups = <<>> /\ pe_ratios = <<>>
          /\ gold_stocks = <<>> /\ rejected = <<>>
    /\ pc \in {"filter", "group", "button", "scan", "gate", "done",
               "crashed"} => AllBound

\* three roles found, the mode column missing: the run stopped
C4_Witness ==
    /\ pc = "stopped"
    /\ person_col # None /\ type_col # None /\ val_col # None
    /\ mode_col = None

-----------------------------------------------------------------------------
\* C5, as claimed: in a run where all four roles are bound nothing is
\* fatal: the run never ends on a fault.
C5_OnlySchemaMismatchFatal ==
    Mapped /\ AllBound => pc # "crashed"

-----------------------------------------------------------------------------
\* the three predicates as the claim words them, each case-insensitive
ClaimSignal(row, p, t, m) ==
    /\ row[p] # "" /\ Contains(Lower(row[p]), "promoter")
    /\ row[t] # ""
    /\ Contains(Lower(row[t]), "buy") \/ Contains(Lower(row[t]), "acqui")
    /\ row[m] # "" /\ StartsWith(Lower(row[m]), "market p")

\* C6, as claimed: a row is in the classifier's output iff its actor
\* category contains "Promoter", its transaction type contains "Buy" or
\* "Acqui" and its acquisition mode starts with "Market P", all three
\* case-insensitively; the output holds rows of the input only.
C6_ClassifierCaseInsensitive ==
    Filtered =>
        /\ \A i \in DOMAIN final_df :
              final_df[i] \in DOMAIN uploaded_file.rows
        /\ \A r \in DOMAIN uploaded_file.rows :
              r \in Elems(final_df)
                 <=> ClaimSignal(uploaded_file.rows[r],
                                 ColumnIndex(df_columns, person_col),
                                 ColumnIndex(df_columns, type_col),
                                 ColumnIndex(df_columns, mode_col))

-----------------------------------------------------------------------------
\* col, lower-cased, contains every token of the keyword list
ClaimMatches(col, tokens) ==
    \A k \in DOMAIN tokens : Contains(Lower(col), tokens[k])

\* the first column, in table order, that matches; None when none does
ClaimFirst(columns, tokens) ==
    LET hits == {i \in DOMAIN columns : ClaimMatches(columns[i], tokens)}
    IN  IF hits = {} THEN None
        ELSE columns[CHOOSE i \in hits : \A j \in hits : i <= j]

\* some header of the CSV spells the tokens once its newlines are taken out
ClaimSpelled(tokens) ==
    \E i \in DOMAIN uploaded_file.columns :
        ClaimMatches(RemoveNewlines(uploaded_file.columns[i]), tokens)

\* C9: the headers lose their newlines and surrounding whitespace; each
\* role is then bound to the first column whose lower-cased name contains
\* all tokens of its keyword list, the transaction type falling back to
\* {acquis, dispos} only when no column matches {transaction, type}; a role
\* is unbound only if no column matches; a CSV that spells all four binds
\* all four.
C9_FirstMatchBinding ==
    JustMapped =>
        /\ Len(df_columns) = Len(uploaded_file.columns)
        /\ \A i \in DOMAIN df_columns :
              /\ ~ Contains(df_columns[i], "\n")
              /\ df_columns[i] # "" =>
                    /\ CharAt(df_columns[i], 1) \notin Whitespace
                    /\ CharAt(df_columns[i], Len(df_columns[i]))
                          \notin Whitespace
              /\ Contains(RemoveNewlines(uploaded_file.columns[i]),
                          df_columns[i])
        /\ person_col = ClaimFirst(df_columns, <<"category", "person">>)
        /\ val_col = ClaimFirst(df_columns, <<"value", "security">>)
        /\ mode_col = ClaimFirst(df_columns, <<"mode", "acquis">>)
        /\ LET named == ClaimFirst(df_columns, <<"transaction", "type">>)
           IN  type_col =
                  IF named # None THEN named
                  ELSE ClaimFirst(df_columns, <<"acquis", "dispos">>)
        /\ \/ AllBound
           \/ ~ ClaimSpelled(<<"category", "person">>)
           \/ ~ ClaimSpelled(<<"value", "security">>)
           \/ ~ ClaimSpelled(<<"mode", "acquis">>)
           \/ /\ ~ ClaimSpelled(<<"transaction", "type">>)
              /\ ~ ClaimSpelled(<<"acquis", "dispos">>)

\* a header with a newline inside "Person", the type bound by the fallback
C9_Witness ==
    /\ JustMapped /\ AllBound
    /\ person_col = "Category of Person"
    /\ type_col = "Acquisition/Disposal"
    /\ \E i \in DOMAIN uploaded_file.columns :
          uploaded_file.columns[i] = "Category of Per\nson"

-----------------------------------------------------------------------------
SymbolColumn ==
    ColumnIndex(df_columns, "SYMBOL")

ValueColumn ==
    ColumnIndex(df_columns, val_col)

\* the classified rows of one company (exact match of the symbol)
RowsOf(symbol) ==
    {r \in Elems(final_df) : uploaded_file.rows[r][SymbolColumn] = symbol}

\* a row's contribution: its value when that reads as a number, else 0
Contribution(r) ==
    LET cell == uploaded_file.rows[r][ValueColumn]
    IN  IF IsNumericText(cell) THEN DecimalValue(cell) ELSE 0

RECURSIVE Total(_)
Total(S) ==
    IF S = {} THEN 0
    ELSE LET r == CHOOSE x \in S : TRUE
         IN  Contribution(r) + Total(S \ {r})

\* C7: one entry per distinct symbol (exact match) among the classified
\* rows; its total is the sum of the numeric values of that company's
\* classified rows, a missing or non-numeric value adding 0, so a company
\* with no parseable value is still there with total 0; 'Value (Cr)' is the
\* total over 10,000,000 rounded to 2 decimals.
C7_OneEntryPerSymbol ==
    Grouped =>
        /\ {grouped_df[i].SYMBOL : i \in DOMAIN grouped_df}
              = {uploaded_file.rows[r][SymbolColumn] :
                    r \in Elems(final_df)} \ {""}
        /\ \A i, j \in DOMAIN grouped_df :
              grouped_df[i].SYMBOL = grouped_df[j].SYMBOL => i = j
        /\ \A i \in DOMAIN grouped_df :
              /\ grouped_df[i].val = Total(RowsOf(grouped_df[i].SYMBOL))
              /\ 2 * (grouped_df[i].ValueCr * (Crore \div Scale)
                        - grouped_df[i].val)
                    \in -(Crore \div Scale)..(Crore \div Scale)
              /\ grouped_df[i].val = 50000000
                    => grouped_df[i].ValueCr = 5 * Scale
              /\ grouped_df[i].val = 30000000
                    => grouped_df[i].ValueCr = 3 * Scale

\* scenario 3: two classified rows of XYZ worth 10,000,000 and 20,000,000
\* make the single entry XYZ of 3.0
C7_Witness ==
    /\ Grouped
    /\ Len(final_df) >= 2
    /\ \E i \in DOMAIN grouped_df :
          /\ grouped_df[i].SYMBOL = "XYZ"
          /\ grouped_df[i].ValueCr = 3 * Scale
          /\ Cardinality(RowsOf("XYZ")) = 2

-----------------------------------------------------------------------------
\* final_df with the rows at positions a and b exchanged
Swapped(a, b) ==
    [i \in DOMAIN final_df |->
        IF i = a THEN final_df[b] ELSE IF i = b THEN final_df[a]
        ELSE final_df[i]]

Descending ==
    \A i, j \in DOMAIN grouped_df :
        i < j => grouped_df[i].ValueCr >= grouped_df[j].ValueCr

-----------------------------------------------------------------------------
\* C8: the gate leaves the enriched list as it was, every field and the
\* order; evaluating it again on the stored candidates with the same
\* sliders gives the same two sets; a candidate whose P/E is <= 0 is
\* rejected whatever the P/E slider says.
C8_GateIsPure ==
    /\ [][pc = "gate" =>
             /\ top_picks' = top_picks
             /\ grouped_df' = grouped_df
             /\ <<pe_limit, roe_limit, debt_limit>>'
                   = <<pe_limit, roe_limit, debt_limit>>]_vars
    /\ [](Gated =>
             /\ gold_stocks
                   = gold_of(top_picks, pe_limit, roe_limit, debt_limit)
             /\ rejected = rejected_of(top_picks, gold_stocks)
             /\ \A i \in DOMAIN top_picks :
                   top_picks[i].PE <= 0 =>
                      /\ top_picks[i] \in Elems(rejected)
                      /\ top_picks[i] \notin Elems(gold_stocks))

\* the gate has run with the P/E slider at its top on a loss-making company
\* and accepted the other one
C8_Witness ==
    /\ Gated
    /\ pe_limit = 100
    /\ gold_stocks # <<>>
    /\ \E i \in DOMAIN rejected : rejected[i].PE < 0

=============================================================================
